---- MODULE Spec2Model ----
(***************************************************************************)
(* Model of the two batch workflows of quesby-core:                        *)
(*   - structural migration  [ULID] -> [ULID]--[slug]   (migratePosts)     *)
(*   - legacy content import                            (importContent)    *)
(* Strings are sequences of one-character strings, so that the code's      *)
(* string tests (regular expressions, trim, indexOf, split) are computed.  *)
(* A run is cut into one action for everything before the per-document     *)
(* loop, one action per loop iteration and one for the summary and exit.   *)
(***************************************************************************)
EXTENDS Integers, Sequences, FiniteSets, TLC

(***************************************************************************)
(* Bounds of the model.                                                    *)
(***************************************************************************)
MaxDirs == 2
MaxRuns == 2
MaxFailures == 1
MaxTick == 0

(***************************************************************************)
(* Characters and generic string helpers.                                  *)
(***************************************************************************)
Digits == {"0","1","2","3","4","5","6","7","8","9"}
Upper == {"A","B","C","D","E","F","G","H","I","J","K","L","M","N","O","P","Q",
          "R","S","T","U","V","W","X","Y","Z"}
Lower == {"a","b","c","d","e","f","g","h","i","j","k","l","m","n","o","p","q",
          "r","s","t","u","v","w","x","y","z"}
UpperSeq == <<"A","B","C","D","E","F","G","H","I","J","K","L","M","N","O","P","Q","R","S","T","U","V","W","X","Y","Z">>
LowerSeq == <<"a","b","c","d","e","f","g","h","i","j","k","l","m","n","o","p","q","r","s","t","u","v","w","x","y","z">>
AlNum == Digits \cup Upper \cup Lower
\* [0-9A-HJKMNP-TV-Z]
Crockford == Digits \cup (Upper \ {"I","L","O","U"})
WS == {" "}

ULIDLen == 26

SetMin(S) == CHOOSE x \in S : \A y \in S : x <= y
SetMax(S) == CHOOSE x \in S : \A y \in S : x >= y

Rep(c, n) == [k \in 1..n |-> c]

\* String.prototype.trim
RECURSIVE TrimStart(_)
TrimStart(s) == IF s # <<>> /\ s[1] \in WS THEN TrimStart(Tail(s)) ELSE s
RECURSIVE TrimEnd(_)
TrimEnd(s) ==
  IF s # <<>> /\ s[Len(s)] \in WS THEN TrimEnd(SubSeq(s, 1, Len(s) - 1)) ELSE s
Trim(s) == TrimEnd(TrimStart(s))

\* String.prototype.indexOf for one character, 1-based; 0 when absent
RECURSIVE IndexFrom(_, _, _)
IndexFrom(s, c, i) ==
  IF i > Len(s) THEN 0 ELSE IF s[i] = c THEN i ELSE IndexFrom(s, c, i + 1)
IndexOf(s, c) == IndexFrom(s, c, 1)

StartsWith(s, c) == Len(s) >= 1 /\ s[1] = c
EndsWith(s, c) == Len(s) >= 1 /\ s[Len(s)] = c

\* String.prototype.split for a one-character separator
RECURSIVE Split(_, _)
Split(s, c) ==
  LET i == IndexOf(s, c)
  IN IF i = 0 THEN <<s>>
     ELSE <<SubSeq(s, 1, i - 1)>> \o Split(SubSeq(s, i + 1, Len(s)), c)

\* s.replace(/[chars]/g, '')
RECURSIVE Remove(_, _)
Remove(s, chars) ==
  IF s = <<>> THEN <<>>
  ELSE (IF s[1] \in chars THEN <<>> ELSE <<s[1]>>) \o Remove(Tail(s), chars)

(***************************************************************************)
(* Files.  A markdown file is its frontmatter block (whether the           *)
(* frontmatterRegex matches, and then the lines between the delimiters)    *)
(* and its body lines.                                                     *)
(***************************************************************************)
MkText(fm, header, body) == [fm |-> fm, header |-> header, body |-> body]
NoText == MkText(FALSE, <<>>, <<>>)

K_slug == <<"s","l","u","g">>
K_title == <<"t","i","t","l","e">>
K_aliases == <<"a","l","i","a","s","e","s">>

\* a frontmatter value: a string, an array of strings, or a boolean
Str(s) == [list |-> FALSE, bool |-> FALSE, s |-> s, items |-> <<>>]
Arr(items) == [list |-> TRUE, bool |-> FALSE, s |-> <<>>, items |-> items]
Bool(b) == [list |-> FALSE, bool |-> TRUE,
            s |-> IF b THEN <<"t","r","u","e">> ELSE <<"f","a","l","s","e">>,
            items |-> <<>>]

\* frontmatter[key] = value on an insertion-ordered object
SetKey(fm, k, val) ==
  IF \E i \in 1..Len(fm) : fm[i].k = k
  THEN [i \in 1..Len(fm) |-> IF fm[i].k = k THEN [k |-> k, val |-> val] ELSE fm[i]]
  ELSE Append(fm, [k |-> k, val |-> val])

HasKey(fm, k) == \E i \in 1..Len(fm) : fm[i].k = k
GetKey(fm, k) == fm[CHOOSE i \in 1..Len(fm) : fm[i].k = k].val

\* JavaScript truthiness of a value: "" and false are falsy, every array is truthy
TruthyVal(val) ==
  \/ val.list
  \/ (val.bool /\ val.s = <<"t","r","u","e">>)
  \/ (~val.bool /\ val.s # <<>>)

\* truthiness of frontmatter[key] (undefined when the key is absent)
Truthy(fm, k) == HasKey(fm, k) /\ TruthyVal(GetKey(fm, k))

\* the quote removal of parseFrontmatter
StripQuotes(v) ==
  IF \/ (StartsWith(v, "\"") /\ EndsWith(v, "\""))
     \/ (StartsWith(v, "'") /\ EndsWith(v, "'"))
  THEN SubSeq(v, 2, Len(v) - 1)
  ELSE v

\* the value of one "key: value" line
ParseValue(raw) ==
  LET value == StripQuotes(raw)
  IN IF StartsWith(value, "[") /\ EndsWith(value, "]")
     THEN LET parts == Split(SubSeq(value, 2, Len(value) - 1), ",")
          IN Arr([i \in 1..Len(parts) |-> Remove(Trim(parts[i]), {"'", "\""})])
     ELSE Str(value)

\* the for-loop of parseFrontmatter over the header lines
RECURSIVE ParseLines(_, _)
ParseLines(lines, fm) ==
  IF lines = <<>> THEN fm
  ELSE LET trimmed == Trim(lines[1])
           colonIndex == IndexOf(trimmed, ":")
       IN IF trimmed = <<>> \/ StartsWith(trimmed, "#") \/ colonIndex = 0
          THEN ParseLines(Tail(lines), fm)
          ELSE ParseLines(Tail(lines),
                 SetKey(fm, Trim(SubSeq(trimmed, 1, colonIndex - 1)),
                        ParseValue(Trim(SubSeq(trimmed, colonIndex + 1, Len(trimmed))))))

\* leading blank lines of the body are eaten by the \s* after the closing ---
RECURSIVE DropBlank(_)
DropBlank(body) ==
  IF body # <<>> /\ Trim(body[1]) = <<>> THEN DropBlank(Tail(body)) ELSE body

\* String.prototype.trim on a text of several lines
RECURSIVE DropBlankEnd(_)
DropBlankEnd(body) ==
  IF body # <<>> /\ Trim(body[Len(body)]) = <<>>
  THEN DropBlankEnd(SubSeq(body, 1, Len(body) - 1))
  ELSE body
TrimText(body) ==
  LET kept == DropBlankEnd(DropBlank(body))
  IN [i \in 1..Len(kept) |->
        IF i = 1 /\ i = Len(kept) THEN Trim(kept[i])
        ELSE IF i = 1 THEN TrimStart(kept[i])
        ELSE IF i = Len(kept) THEN TrimEnd(kept[i])
        ELSE kept[i]]

parseFrontmatter(text) ==
  IF ~text.fm
  THEN [frontmatter |-> <<>>, content |-> TrimText(text.body)]
  ELSE [frontmatter |-> ParseLines(text.header, <<>>), content |-> DropBlank(text.body)]


\* Array.prototype.join(sep), and the string a template literal makes of a value
RECURSIVE Join(_, _)
Join(items, sep) ==
  IF items = <<>> THEN <<>>
  ELSE IF Len(items) = 1 THEN items[1]
  ELSE items[1] \o sep \o Join(Tail(items), sep)

Stringify(val) == IF val.list THEN Join(val.items, <<",">>) ELSE val.s

\* the lines writeMarkdownFile (migration script) emits for the frontmatter
RECURSIVE EmitLines(_)
EmitLines(fm) ==
  IF fm = <<>> THEN <<>>
  ELSE LET e == fm[1]
       IN (IF e.val.list
           THEN <<e.k \o <<":">>>> \o
                [i \in 1..Len(e.val.items) |-> <<" "," ","-"," ">> \o e.val.items[i]]
           ELSE <<e.k \o <<":"," ">> \o e.val.s>>)
          \o EmitLines(Tail(fm))

\* the file writeMarkdownFile (migration script) writes: '---\n' + lines +
\* '---\n\n' + content
writeMarkdownFile(frontmatter, content) ==
  MkText(TRUE, EmitLines(frontmatter), <<<<>>>> \o content)

(***************************************************************************)
(* Folder names.                                                           *)
(***************************************************************************)
\* folderName.length === 26 && /^[0-9A-Za-z]{26}$/.test(folderName)
isULID(folderName) ==
  /\ Len(folderName) = ULIDLen
  /\ \A i \in 1..Len(folderName) : folderName[i] \in AlNum

\* /^[0-9A-HJKMNP-TV-Z]{26}--.+$/.test(folderName)
isNewFormat(folderName) ==
  /\ Len(folderName) >= ULIDLen + 3
  /\ \A i \in 1..ULIDLen : folderName[i] \in Crockford
  /\ folderName[ULIDLen + 1] = "-"
  /\ folderName[ULIDLen + 2] = "-"

\* `${ulid}--${slug}`
NewFolderName(ulid, slug) == ulid \o <<"-","-">> \o slug

(***************************************************************************)
(* The filesystem.  A tree is a directory that may not exist and, when it  *)
(* does, maps the names of its sub-directories to their content: the       *)
(* index.md file (if any) and the names of the other files below it.       *)
(***************************************************************************)
MkDir(hasIndex, index, others) == [hasIndex |-> hasIndex, index |-> index, others |-> others]
EmptyDir == MkDir(FALSE, NoText, {})
NoDirs == [n \in {} |-> EmptyDir]
MkTree(exists, dirs) == [exists |-> exists, dirs |-> dirs]
NoTree == MkTree(FALSE, NoDirs)

\* fs.mkdirSync(path, {recursive: true}): an existing directory is kept
Mkdir(dirs, name) ==
  [n \in DOMAIN dirs \cup {name} |-> IF n \in DOMAIN dirs THEN dirs[n] ELSE EmptyDir]

\* fs.writeFileSync(path.join(dir, 'index.md'), ...)
WriteIndex(dirs, name, text) ==
  [dirs EXCEPT ![name] = MkDir(TRUE, text, dirs[name].others)]

\* fs.rmSync(path, {recursive: true, force: true})
Rm(dirs, name) == [n \in DOMAIN dirs \ {name} |-> dirs[n]]


\* all orders in which readdirSync may list the entries S
Listings(S) ==
  {o \in [1..Cardinality(S) -> S] : \A i, j \in 1..Cardinality(S) : o[i] = o[j] => i = j}

(***************************************************************************)
(* Structural migration (migrate-to-ulid-slug.js).                         *)
(***************************************************************************)
\* what execSync(copyCommand) may leave behind when it throws
FailedCopies == {NoTree, MkTree(TRUE, NoDirs)}

\* createBackup() with the failure of the copy command swallowed
createBackupSwallow(bk, tree, dry, copyFails, left) ==
  LET removed == IF bk.exists THEN NoTree ELSE bk
  IN IF ~dry
     THEN IF copyFails
          THEN [backup |-> left, threw |-> FALSE, copied |-> FALSE]
          ELSE [backup |-> MkTree(TRUE, tree.dirs), threw |-> FALSE, copied |-> TRUE]
     ELSE [backup |-> removed, threw |-> FALSE, copied |-> FALSE]

\* createBackup() of the migration script.  copyFails: execSync throws, and
\* then left is what the copy command left at the backup location.
createBackup(bk, tree, dry, copyFails, left) ==
  LET removed == IF bk.exists THEN NoTree ELSE bk
  IN IF ~dry
     THEN IF copyFails
          THEN [backup |-> left, threw |-> TRUE, copied |-> FALSE]
          ELSE [backup |-> MkTree(TRUE, tree.dirs), threw |-> FALSE, copied |-> TRUE]
     ELSE [backup |-> removed, threw |-> FALSE, copied |-> FALSE]

\* the updatedFrontmatter of migratePosts
AddAlias(frontmatter, slug) ==
  LET existingAliases ==
        IF HasKey(frontmatter, K_aliases) /\ GetKey(frontmatter, K_aliases).list
        THEN GetKey(frontmatter, K_aliases).items ELSE <<>>
      IsKept(alias) == alias # <<>> /\ Trim(alias) # <<>>
      newAlias == <<"/","b","l","o","g","/">> \o slug \o <<"/">>
  IN SetKey(frontmatter, K_aliases,
            Arr(Append(SelectSeq(existingAliases, IsKept), newAlias)))

Outcome(outcome, why, folder, slug, dirs, slugMap, failed) ==
  [outcome |-> outcome, why |-> why, folder |-> folder, slug |-> slug,
   dirs |-> dirs, slugMap |-> slugMap, failed |-> failed]

SlugMapHas(slugMap, slug) == \E e \in slugMap : e.slug = slug

\* slugMap.set(slug, newFolderName)
SlugMapSet(slugMap, slug, newFolderName) ==
  {e \in slugMap : e.slug # slug} \cup {[slug |-> slug, folder |-> newFolderName]}

\* MigratePersist without the test of DRY_RUN
MigratePersistAlways(folder, frontmatter, content, slug, newFolderName, dirs, slugMap, dry, f) ==
  IF f = "mkdir"
  THEN Outcome("error", "mkdir", folder, slug, dirs, slugMap, TRUE)
  ELSE IF f = "write"
  THEN Outcome("error", "write", folder, slug, Mkdir(dirs, newFolderName), slugMap, TRUE)
  ELSE IF f = "rm"
  THEN Outcome("error", "rm", folder, slug,
               WriteIndex(Mkdir(dirs, newFolderName), newFolderName,
                          writeMarkdownFile(AddAlias(frontmatter, slug), content)),
               slugMap, TRUE)
  ELSE Outcome("migrated", "live", folder, slug,
               Rm(WriteIndex(Mkdir(dirs, newFolderName), newFolderName,
                             writeMarkdownFile(AddAlias(frontmatter, slug), content)),
                  folder),
               SlugMapSet(slugMap, slug, newFolderName), FALSE)

\* MigratePersist with rmSync of the old folder before mkdirSync and
\* writeMarkdownFile
MigratePersistRmFirst(folder, frontmatter, content, slug, newFolderName, dirs, slugMap, dry, f) ==
  IF dry
  THEN Outcome("migrated", "dry", folder, slug, dirs,
               SlugMapSet(slugMap, slug, newFolderName), FALSE)
  ELSE IF f = "rm"
  THEN Outcome("error", "rm", folder, slug, dirs, slugMap, TRUE)
  ELSE IF f = "mkdir"
  THEN Outcome("error", "mkdir", folder, slug, Rm(dirs, folder), slugMap, TRUE)
  ELSE IF f = "write"
  THEN Outcome("error", "write", folder, slug,
               Mkdir(Rm(dirs, folder), newFolderName), slugMap, TRUE)
  ELSE MigratePersistAlways(folder, frontmatter, content, slug, newFolderName, dirs, slugMap, dry, f)

\* MigratePersist with slugMap.set inside the test of DRY_RUN
MigratePersistDryNoReserve(folder, frontmatter, content, slug, newFolderName, dirs, slugMap, dry, f) ==
  IF dry
  THEN Outcome("migrated", "dry", folder, slug, dirs, slugMap, FALSE)
  ELSE MigratePersistAlways(folder, frontmatter, content, slug, newFolderName, dirs, slugMap, dry, f)

\* The end of an iteration of the for-loop of migratePosts: under DRY_RUN
\* nothing is written; otherwise mkdirSync, writeMarkdownFile and rmSync; then
\* slugMap.set and migrated++.
MigratePersist(folder, frontmatter, content, slug, newFolderName, dirs, slugMap, dry, f) ==
  IF dry
  THEN Outcome("migrated", "dry", folder, slug, dirs,
               SlugMapSet(slugMap, slug, newFolderName), FALSE)
  ELSE IF f = "mkdir"
  THEN Outcome("error", "mkdir", folder, slug, dirs, slugMap, TRUE)
  ELSE IF f = "write"
  THEN Outcome("error", "write", folder, slug, Mkdir(dirs, newFolderName), slugMap, TRUE)
  ELSE IF f = "rm"
  THEN Outcome("error", "rm", folder, slug,
               WriteIndex(Mkdir(dirs, newFolderName), newFolderName,
                          writeMarkdownFile(AddAlias(frontmatter, slug), content)),
               slugMap, TRUE)
  ELSE Outcome("migrated", "live", folder, slug,
               Rm(WriteIndex(Mkdir(dirs, newFolderName), newFolderName,
                             writeMarkdownFile(AddAlias(frontmatter, slug), content)),
                  folder),
               SlugMapSet(slugMap, slug, newFolderName), FALSE)

\* MigrateCheck without the slugMap check
MigrateCheckTargetOnly(folder, frontmatter, content, slug, newFolderName, dirs, slugMap, dry, f) ==
  IF newFolderName \in DOMAIN dirs
  THEN Outcome("conflict", "target", folder, slug, dirs, slugMap, FALSE)
  ELSE MigratePersist(folder, frontmatter, content, slug, newFolderName, dirs, slugMap, dry, f)

\* MigrateCheck without the check of the target folder
MigrateCheckSlugOnly(folder, frontmatter, content, slug, newFolderName, dirs, slugMap, dry, f) ==
  IF SlugMapHas(slugMap, slug)
  THEN Outcome("conflict", "slug", folder, slug, dirs, slugMap, FALSE)
  ELSE MigratePersist(folder, frontmatter, content, slug, newFolderName, dirs, slugMap, dry, f)

\* the two conflict checks of migratePosts
MigrateCheck(folder, frontmatter, content, slug, newFolderName, dirs, slugMap, dry, f) ==
  IF SlugMapHas(slugMap, slug)
  THEN Outcome("conflict", "slug", folder, slug, dirs, slugMap, FALSE)
  ELSE IF newFolderName \in DOMAIN dirs
  THEN Outcome("conflict", "target", folder, slug, dirs, slugMap, FALSE)
  ELSE MigratePersist(folder, frontmatter, content, slug, newFolderName, dirs, slugMap, dry, f)

\* the check of frontmatter.slug, and newFolderName
MigrateSlugged(folder, frontmatter, content, slug, dirs, slugMap, dry, f) ==
  MigrateCheck(folder, frontmatter, content, slug, NewFolderName(folder, slug),
               dirs, slugMap, dry, f)

\* MigrateParsed with a missing slug counted as an error
MigrateParsedNoSlugError(folder, parsed, dirs, slugMap, dry, f) ==
  IF ~Truthy(parsed.frontmatter, K_slug)
  THEN Outcome("error", "no-slug", folder, <<>>, dirs, slugMap, FALSE)
  ELSE MigrateSlugged(folder, parsed.frontmatter, parsed.content,
                      Stringify(GetKey(parsed.frontmatter, K_slug)), dirs, slugMap, dry, f)

\* the check of frontmatter.slug
MigrateParsed(folder, parsed, dirs, slugMap, dry, f) ==
  IF ~Truthy(parsed.frontmatter, K_slug)
  THEN Outcome("skipped", "no-slug", folder, <<>>, dirs, slugMap, FALSE)
  ELSE MigrateSlugged(folder, parsed.frontmatter, parsed.content,
                      Stringify(GetKey(parsed.frontmatter, K_slug)), dirs, slugMap, dry, f)

\* One iteration of the for-loop of migratePosts over folder, on the content
\* directory dirs.  f names the filesystem call that throws in this iteration
\* ("none": no call throws).
MigrateFolder(folder, dirs, slugMap, dry, f) ==
  IF isNewFormat(folder)
  THEN Outcome("skipped", "new-format", folder, <<>>, dirs, slugMap, FALSE)
  ELSE IF ~isULID(folder)
  THEN Outcome("skipped", "not-ulid", folder, <<>>, dirs, slugMap, FALSE)
  ELSE IF ~dirs[folder].hasIndex
  THEN Outcome("error", "no-index", folder, <<>>, dirs, slugMap, FALSE)
  ELSE IF f = "read"
  THEN Outcome("error", "read", folder, <<>>, dirs, slugMap, TRUE)
  ELSE MigrateParsed(folder, parseFrontmatter(dirs[folder].index), dirs, slugMap, dry, f)

\* migrationResults and importResults in one record: the migration never
\* touches imported, the import never touches migrated and conflicts
NoResults == [processed |-> 0, migrated |-> 0, imported |-> 0, skipped |-> 0,
              errors |-> 0, conflicts |-> 0]

\* Count without the errors++ of the catch block
CountNoErrors(res, outcome) ==
  [processed |-> res.processed + 1,
   migrated |-> res.migrated + (IF outcome = "migrated" THEN 1 ELSE 0),
   imported |-> res.imported + (IF outcome = "imported" THEN 1 ELSE 0),
   skipped |-> res.skipped + (IF outcome = "skipped" THEN 1 ELSE 0),
   errors |-> res.errors,
   conflicts |-> res.conflicts + (IF outcome = "conflict" THEN 1 ELSE 0)]

\* Count without the skipped++ of the skip branches
CountNoSkipped(res, outcome) ==
  [processed |-> res.processed + 1,
   migrated |-> res.migrated + (IF outcome = "migrated" THEN 1 ELSE 0),
   imported |-> res.imported + (IF outcome = "imported" THEN 1 ELSE 0),
   skipped |-> res.skipped,
   errors |-> res.errors + (IF outcome = "error" THEN 1 ELSE 0),
   conflicts |-> res.conflicts + (IF outcome = "conflict" THEN 1 ELSE 0)]

\* the counter updates of one loop iteration
Count(res, outcome) ==
  [processed |-> res.processed + 1,
   migrated |-> res.migrated + (IF outcome = "migrated" THEN 1 ELSE 0),
   imported |-> res.imported + (IF outcome = "imported" THEN 1 ELSE 0),
   skipped |-> res.skipped + (IF outcome = "skipped" THEN 1 ELSE 0),
   errors |-> res.errors + (IF outcome = "error" THEN 1 ELSE 0),
   conflicts |-> res.conflicts + (IF outcome = "conflict" THEN 1 ELSE 0)]

\* MigrateExitCode without the test of conflicts
MigrateExitCodeErrorsOnly(res) == IF res.errors > 0 THEN 1 ELSE 0

\* the exit status after the summary of migratePosts
MigrateExitCode(res) == IF res.errors > 0 \/ res.conflicts > 0 THEN 1 ELSE 0


(***************************************************************************)
(* Legacy content import (tools/legacy-content-importer/index.js).         *)
(***************************************************************************)
K_id == <<"i","d">>
K_description == <<"d","e","s","c","r","i","p","t","i","o","n">>
K_date == <<"d","a","t","e">>
K_author == <<"a","u","t","h","o","r">>
K_tags == <<"t","a","g","s">>
K_draft == <<"d","r","a","f","t">>
K_seoTitle == <<"s","e","o","T","i","t","l","e">>
K_seoDescription == <<"s","e","o","D","e","s","c","r","i","p","t","i","o","n">>
K_image == <<"i","m","a","g","e">>
K_category == <<"c","a","t","e","g","o","r","y">>
K_featured == <<"f","e","a","t","u","r","e","d">>
K_type == <<"t","y","p","e">>
K_pageTitle == <<"p","a","g","e","-","t","i","t","l","e">>
K_descrizione == <<"d","e","s","c","r","i","z","i","o","n","e">>
K_excerpt == <<"e","x","c","e","r","p","t">>
K_summary == <<"s","u","m","m","a","r","y">>

\* the default fieldMappings.title and fieldMappings.description
TitleFields == <<K_pageTitle, K_seoTitle, K_title>>
DescriptionFields == <<K_descrizione, K_description, K_excerpt, K_summary>>

DEFAULT_AUTHOR == <<"A","u","t","h","o","r">>
Untitled == <<"U","n","t","i","t","l","e","d">>
MdExt == <<".","m","d">>

\* String.prototype.toLowerCase / toUpperCase
LowerChar(c) ==
  IF c \in Upper THEN LowerSeq[CHOOSE i \in 1..Len(UpperSeq) : UpperSeq[i] = c] ELSE c
UpperChar(c) ==
  IF c \in Lower THEN UpperSeq[CHOOSE i \in 1..Len(LowerSeq) : LowerSeq[i] = c] ELSE c
toLowerCase(s) == [i \in 1..Len(s) |-> LowerChar(s[i])]
toUpperCase(s) == [i \in 1..Len(s) |-> UpperChar(s[i])]

\* s.replace(/[chars]+/g, '-')
RECURSIVE Squeeze(_, _)
Squeeze(s, chars) ==
  IF s = <<>> THEN <<>>
  ELSE IF s[1] \in chars
  THEN IF Len(s) >= 2 /\ s[2] \in chars
       THEN Squeeze(Tail(s), chars)
       ELSE <<"-">> \o Squeeze(Tail(s), chars)
  ELSE <<s[1]>> \o Squeeze(Tail(s), chars)

createSlug(title) ==
  LET lowered == toLowerCase(title)
      kept == SelectSeq(lowered, LAMBDA c : c \in Lower \cup Digits \cup WS \cup {"-"})
      hyphened == Squeeze(kept, WS)
      single == Squeeze(hyphened, {"-"})
  IN Trim(single)

\* String.prototype.endsWith(suffix)
EndsWithStr(s, suffix) ==
  Len(s) >= Len(suffix) /\ SubSeq(s, Len(s) - Len(suffix) + 1, Len(s)) = suffix

\* path.basename(p) and path.basename(p, ext)
Basename(p) ==
  LET at == {i \in 1..Len(p) : p[i] = "/"}
  IN IF at = {} THEN p ELSE SubSeq(p, SetMax(at) + 1, Len(p))
BasenameExt(p, ext) ==
  LET b == Basename(p)
  IN IF b # ext /\ EndsWithStr(b, ext) THEN SubSeq(b, 1, Len(b) - Len(ext)) ELSE b

\* Number.prototype.toString(36)
Base36Digits == <<"0","1","2","3","4","5","6","7","8","9","a","b","c","d","e","f","g","h","i","j","k","l","m","n","o","p","q","r","s","t","u","v","w","x","y","z">>
RECURSIVE toString36(_)
toString36(n) ==
  IF n < 36 THEN <<Base36Digits[n + 1]>>
  ELSE toString36(n \div 36) \o <<Base36Digits[(n % 36) + 1]>>

\* String.prototype.padEnd(n, c)
padEnd(s, n, c) == IF Len(s) >= n THEN s ELSE s \o Rep(c, n - Len(s))

\* Date.now() is Epoch + tick milliseconds; the leading base-36 digits of Epoch
\* (a multiple of 36^2) do not change during the ticks the model covers
EpochDigits == <<"M","F","3","K","2","A">>
TimeString36(tick) ==
  LET low == toString36(tick)
  IN toUpperCase(EpochDigits \o (IF Len(low) < 2 THEN <<"0">> \o low ELSE low))

\* generateULID(), for Date.now() = Epoch + tick and
\* Math.random().toString(36).substring(2, 15) = random
generateULID(tick, random) ==
  LET timePart == TimeString36(tick)
      randomPart == SubSeq(padEnd(toUpperCase(random), 16, "0"), 1, 16)
  IN timePart \o randomPart

\* new Date().toISOString() at Date.now() = Epoch + tick
NowISO(tick) == <<"2","0","2","5","-","0","1","-","2","0","T","0","0",":","0","0",":","0","0",".","0">> \o toString36(tick) \o <<"Z">>

\* the first field of fields that is truthy in the old frontmatter, as an
\* index into fields; 0 when there is none
FirstTruthy(old, fields) ==
  LET hit == {i \in 1..Len(fields) : Truthy(old, fields[i])}
  IN IF hit = {} THEN 0 ELSE SetMin(hit)

OrElse(old, k, default) == IF Truthy(old, k) THEN GetKey(old, k) ELSE default

\* convertFrontmatter(oldFrontmatter, filename) with the default configuration;
\* threw: the call ends in a TypeError
convertFrontmatter(old, filename, tick, random) ==
  LET ti == FirstTruthy(old, TitleFields)
      mapped == IF ti = 0 THEN Str(Untitled) ELSE GetKey(old, TitleFields[ti])
      title == IF mapped = Str(Untitled) THEN Str(BasenameExt(filename, MdExt)) ELSE mapped
      di == FirstTruthy(old, DescriptionFields)
      description == IF di = 0 THEN Str(<<>>) ELSE GetKey(old, DescriptionFields[di])
      slug == createSlug(title.s)
      tags0 == OrElse(old, K_tags, Arr(<<>>))
      pushCategory == Truthy(old, K_category)
      tags == IF pushCategory /\ tags0.list
              THEN Arr(Append(tags0.items, Stringify(GetKey(old, K_category))))
              ELSE tags0
      alias == <<"/","b","l","o","g","/">> \o slug \o <<"/">>
      base == << [k |-> K_id, val |-> Str(generateULID(tick, random))],
                 [k |-> K_title, val |-> title],
                 [k |-> K_slug, val |-> Str(slug)],
                 [k |-> K_description, val |-> description],
                 [k |-> K_date, val |-> OrElse(old, K_date, Str(NowISO(tick)))],
                 [k |-> K_author, val |-> OrElse(old, K_author, Str(DEFAULT_AUTHOR))],
                 [k |-> K_tags, val |-> tags],
                 [k |-> K_draft, val |-> OrElse(old, K_draft, Bool(FALSE))],
                 [k |-> K_aliases, val |-> Arr(<<alias>>)],
                 [k |-> K_seoTitle, val |-> OrElse(old, K_seoTitle, title)],
                 [k |-> K_seoDescription, val |-> OrElse(old, K_seoDescription, description)] >>
      withImage == IF Truthy(old, K_image)
                   THEN Append(base, [k |-> K_image, val |-> Str(Basename(GetKey(old, K_image).s))])
                   ELSE base
      withFeatured == IF Truthy(old, K_featured)
                      THEN Append(withImage, [k |-> K_featured, val |-> GetKey(old, K_featured)])
                      ELSE withImage
      withType == IF Truthy(old, K_type)
                  THEN Append(withFeatured, [k |-> K_type, val |-> GetKey(old, K_type)])
                  ELSE withFeatured
      threw == \/ title.list                                  \* title.toLowerCase
               \/ (Truthy(old, K_image) /\ GetKey(old, K_image).list)   \* path.basename
               \/ (pushCategory /\ ~tags0.list)               \* tags.push
  IN [threw |-> threw, frontmatter |-> IF threw THEN <<>> ELSE withType]

\* the capture groups of /!\[.*?\]\((.*?)\)/g in one line
RECURSIVE ImagePaths(_)
ImagePaths(line) ==
  LET Closes(j) == \E k \in j + 2..Len(line) : line[k] = ")"
      Opens(i) == {j \in i + 2..Len(line) - 1 :
                    line[j] = "]" /\ line[j + 1] = "(" /\ Closes(j)}
      starts == {i \in 1..Len(line) - 1 :
                   line[i] = "!" /\ line[i + 1] = "[" /\ Opens(i) # {}}
  IN IF starts = {} THEN {}
     ELSE LET j == SetMin(Opens(SetMin(starts)))
              k == SetMin({x \in j + 2..Len(line) : line[x] = ")"})
          IN {SubSeq(line, j + 2, k - 1)} \cup ImagePaths(SubSeq(line, k + 1, Len(line)))

\* String.prototype.startsWith(prefix)
StartsWithStr(s, prefix) ==
  Len(s) >= Len(prefix) /\ SubSeq(s, 1, Len(prefix)) = prefix

\* findPostAssets(markdownContent, sourceDir): the referenced local images
\* that exist, for relative paths below a source directory holding files
findPostAssets(markdownContent, files) ==
  {imagePath \in UNION {ImagePaths(markdownContent[i]) : i \in 1..Len(markdownContent)} :
     /\ ~StartsWithStr(imagePath, <<"h","t","t","p">>)
     /\ ~StartsWithStr(imagePath, <<"d","a","t","a",":">>)
     /\ imagePath \in files}

\* newPath of copyPostAssets: `assets/${asset.filename}`
AssetNewPath(imagePath) == <<"a","s","s","e","t","s","/">> \o Basename(imagePath)

\* s.indexOf(sub, from - 1) + 1: the first position at or after from where
\* sub occurs in s, 0 when there is none
RECURSIVE IndexOfStr(_, _, _)
IndexOfStr(s, sub, from) ==
  IF from + Len(sub) - 1 > Len(s) THEN 0
  ELSE IF SubSeq(s, from, from + Len(sub) - 1) = sub THEN from
  ELSE IndexOfStr(s, sub, from + 1)

\* match.replace(asset.originalPath, asset.newPath) with a string pattern:
\* the first occurrence is replaced
ReplaceFirst(s, sub, by) ==
  LET i == IndexOfStr(s, sub, 1)
  IN IF i = 0 THEN s
     ELSE SubSeq(s, 1, i - 1) \o by \o SubSeq(s, i + Len(sub), Len(s))

\* updatedContent.replace(imageRegex, match => ...) on one line, for
\* imageRegex = /!\[.*?\]\(<originalPath>\)/g: the leftmost "![" that has
\* "](<originalPath>)" after it starts a match, which ends at the first such
\* tail
RECURSIVE ReplaceImageRefs(_, _)
ReplaceImageRefs(line, asset) ==
  LET tail == <<"]", "(">> \o asset.originalPath \o <<")">>
      p == IndexOfStr(line, <<"!", "[">>, 1)
      q == IF p = 0 THEN 0 ELSE IndexOfStr(line, tail, p + 2)
      end == q + Len(tail) - 1
  IN IF q = 0 THEN line
     ELSE SubSeq(line, 1, p - 1)
          \o ReplaceFirst(SubSeq(line, p, end), asset.originalPath, asset.newPath)
          \o ReplaceImageRefs(SubSeq(line, end + 1, Len(line)), asset)

\* updateAssetPaths(content, copiedAssets), content as its lines
RECURSIVE updateAssetPaths(_, _)
updateAssetPaths(content, copiedAssets) ==
  IF copiedAssets = <<>> THEN content
  ELSE updateAssetPaths([k \in 1..Len(content) |-> ReplaceImageRefs(content[k], copiedAssets[1])],
                        Tail(copiedAssets))

\* yamlQuote(value)
RECURSIVE EscapeQuotes(_)
EscapeQuotes(s) ==
  IF s = <<>> THEN <<>>
  ELSE (IF s[1] = "\"" THEN <<"\\", "\"">> ELSE <<s[1]>>) \o EscapeQuotes(Tail(s))
yamlQuote(s) == <<"\"">> \o EscapeQuotes(s) \o <<"\"">>

\* the lines writeMarkdownFile (importer) emits for the frontmatter
RECURSIVE EmitLinesImport(_)
EmitLinesImport(fm) ==
  IF fm = <<>> THEN <<>>
  ELSE LET e == fm[1]
       IN (IF e.val.list
           THEN <<e.k \o <<":">>>> \o
                [i \in 1..Len(e.val.items) |-> <<" "," ","-"," ">> \o yamlQuote(e.val.items[i])]
           ELSE IF e.val.bool
           THEN <<e.k \o <<":"," ">> \o e.val.s>>
           ELSE <<e.k \o <<":"," ">> \o yamlQuote(e.val.s)>>)
          \o EmitLinesImport(Tail(fm))

writeMarkdownFileImport(frontmatter, content) ==
  MkText(TRUE, EmitLinesImport(frontmatter), <<<<>>>> \o content)

\* createBackup() of the importer
createBackupImport(enabled, bk, tree, dry, copyFails, left) ==
  LET removed == IF bk.exists THEN NoTree ELSE bk
  IN IF ~enabled
     THEN [backup |-> bk, threw |-> FALSE, copied |-> FALSE]
     ELSE IF ~dry /\ tree.exists
     THEN IF copyFails
          THEN [backup |-> left, threw |-> TRUE, copied |-> FALSE]
          ELSE [backup |-> MkTree(TRUE, tree.dirs), threw |-> FALSE, copied |-> TRUE]
     ELSE [backup |-> removed, threw |-> FALSE, copied |-> FALSE]

\* The end of an iteration of the for-loop of importContent: the check of the
\* target directory, mkdirSync and writeMarkdownFile.
ImportWrite(filePath, newFrontmatter, content, slug, dirName, dirs, dry, f) ==
  IF dirName \in DOMAIN dirs
  THEN Outcome("skipped", "target", filePath, slug, dirs, {}, FALSE)
  ELSE IF dry
  THEN Outcome("imported", "dry", filePath, slug, dirs, {}, FALSE)
  ELSE IF f = "mkdir"
  THEN Outcome("error", "mkdir", filePath, slug, dirs, {}, TRUE)
  ELSE IF f = "write"
  THEN Outcome("error", "write", filePath, slug, Mkdir(dirs, dirName), {}, TRUE)
  ELSE Outcome("imported", "live", filePath, slug,
               WriteIndex(Mkdir(dirs, dirName), dirName,
                          writeMarkdownFileImport(newFrontmatter, content)),
               {}, FALSE)

\* dirName = `${newFrontmatter.id}--${newFrontmatter.slug}`
ImportNamed(filePath, newFrontmatter, content, dirs, dry, f) ==
  ImportWrite(filePath, newFrontmatter, content, GetKey(newFrontmatter, K_slug).s,
              NewFolderName(GetKey(newFrontmatter, K_id).s, GetKey(newFrontmatter, K_slug).s),
              dirs, dry, f)

\* a TypeError of convertFrontmatter is caught by the catch of the loop
ImportConverted(filePath, conv, content, dirs, dry, f) ==
  IF conv.threw
  THEN Outcome("error", "convert", filePath, <<>>, dirs, {}, FALSE)
  ELSE ImportNamed(filePath, conv.frontmatter, content, dirs, dry, f)

ImportParsed(filePath, parsed, dirs, dry, f, tick, random) ==
  ImportConverted(filePath,
                  convertFrontmatter(parsed.frontmatter, Basename(filePath), tick, random),
                  parsed.content, dirs, dry, f)

\* One iteration of the for-loop of importContent over the source file
\* filePath with content text.  f names the filesystem call that throws
\* ("none": no filesystem call throws).
ImportFile(filePath, text, dirs, dry, f, tick, random) ==
  IF f = "read"
  THEN Outcome("error", "read", filePath, <<>>, dirs, {}, TRUE)
  ELSE ImportParsed(filePath, parseFrontmatter(text), dirs, dry, f, tick, random)

\* the exit status after the summary of importContent
ImportExitCode(res) == IF res.errors > 0 THEN 1 ELSE 0


(***************************************************************************)
(* The inputs the model draws from.                                        *)
(***************************************************************************)
ULID_A == <<"0","1","A">> \o Rep("0", 23)
ULID_B == <<"0","1","B">> \o Rep("0", 23)
ULID_D == <<"0","1","D">> \o Rep("0", 23)
ULID_E == <<"0","1","E">> \o Rep("0", 23)
\* 26 alphanumeric characters, one of them outside the Crockford alphabet
ULID_L == <<"0","1","L">> \o Rep("0", 23)

PostA == MkText(TRUE, <<<<"t","i","t","l","e",":"," ","F","i","r","s","t">>, <<"s","l","u","g",":"," ","a">>, <<"a","l","i","a","s","e","s",":">>, <<" "," ","-"," ","/","f","i","r","s","t","/">>>>, <<<<"t","e","x","t">>>>)
PostB == MkText(TRUE, <<<<"t","i","t","l","e",":"," ","\"","S","e","c","o","n","d","\"">>, <<"s","l","u","g",":"," ","\"","a","\"">>, <<"a","l","i","a","s","e","s",":"," ","[","/","o","l","d","/",","," ",","," ","/","x","/","]">>>>, <<<<>>, <<"t","e","x","t">>>>)
PostD == MkText(TRUE, <<<<"t","i","t","l","e",":"," ","N","o"," ","s","l","u","g">>, <<"#"," ","s","l","u","g",":"," ","d">>>>, <<<<"t","e","x","t">>>>)
PostL == MkText(TRUE, <<<<"s","l","u","g",":"," ","l">>, <<"t","a","g","s",":">>, <<" "," ","-"," ","x">>>>, <<<<"t","e","x","t">>>>)
PostOld == MkText(TRUE, <<<<"s","l","u","g",":"," ","a">>, <<"a","l","i","a","s","e","s",":">>, <<" "," ","-"," ","/","b","l","o","g","/","a","/">>>>, <<<<>>, <<"o","l","d">>>>)

\* the directories an initial content tree is made of
PostDirs ==
  { [name |-> ULID_A, dir |-> MkDir(TRUE, PostA, {})],
    [name |-> ULID_B, dir |-> MkDir(TRUE, PostB, {<<"a","s","s","e","t","s","/","p","i","c",".","p","n","g">>})],
    [name |-> ULID_D, dir |-> MkDir(TRUE, PostD, {})],
    [name |-> ULID_E, dir |-> MkDir(FALSE, NoText, {<<"n","o","t","e","s",".","t","x","t">>})],
    [name |-> ULID_L, dir |-> MkDir(TRUE, PostL, {})],
    [name |-> <<"d","r","a","f","t","s">>, dir |-> MkDir(FALSE, NoText, {})],
    [name |-> NewFolderName(ULID_A, <<"a">>), dir |-> MkDir(TRUE, PostOld, {})] }

TreeOf(entries) ==
  MkTree(TRUE, [n \in {e.name : e \in entries} |->
                  (CHOOSE e \in entries : e.name = n).dir])

ContentTrees ==
  {NoTree} \cup {TreeOf(es) : es \in {x \in SUBSET PostDirs : Cardinality(x) <= MaxDirs}}

\* a backup left by an earlier run
StaleBackup == MkTree(TRUE, [n \in {<<"s","t","a","l","e">>} |-> EmptyDir])

\* the files a source directory of the import is made of
LegacyA == MkText(FALSE, <<>>, <<<<"j","u","s","t"," ","t","e","x","t">>, <<>>>>)
LegacyB == MkText(TRUE, <<<<"p","a","g","e","-","t","i","t","l","e",":"," ","\"","H","e","l","l","o","\"">>, <<"t","i","t","l","e",":"," ","O","t","h","e","r">>, <<"t","a","g","s",":"," ","[","x",","," ","y","]">>, <<"c","a","t","e","g","o","r","y",":"," ","n","e","w","s">>>>,
                  <<<<"!","[","p",".","p","n","g","]","(","p",".","p","n","g",")">>>>)
LegacyD == MkText(TRUE, <<<<"t","i","t","l","e",":"," ","[","x",","," ","y","]">>>>, <<<<"t","e","x","t">>>>)

\* a title that is the string 'Untitled', and a title ending in punctuation
LegacyU == MkText(TRUE, <<<<"t","i","t","l","e",":"," ","U","n","t","i","t","l","e","d">>, <<"s","u","m","m","a","r","y",":"," ","S">>>>, <<<<"t","e","x","t">>>>)
LegacyW == MkText(TRUE, <<<<"t","i","t","l","e",":"," ","\"","W","h","y"," ","?","\"">>>>, <<<<"t","e","x","t">>>>)
TitledFiles ==
  { [name |-> <<"u",".","m","d">>, text |-> LegacyU],
    [name |-> <<"w",".","m","d">>, text |-> LegacyW] }

SourceFiles ==
  { [name |-> <<"H","e","l","l","o",".","m","d">>, text |-> LegacyA],
    [name |-> <<"b",".","m","d">>, text |-> LegacyB],
    [name |-> <<"d",".","m","d">>, text |-> LegacyD],
    [name |-> <<"p",".","p","n","g">>, text |-> LegacyA] }

SourceOf(entries) ==
  [exists |-> TRUE,
   files |-> [n \in {e.name : e \in entries} |-> (CHOOSE e \in entries : e.name = n).text]]
NoSource == [exists |-> FALSE, files |-> [n \in {} |-> NoText]]

Sources ==
  {NoSource, SourceOf(TitledFiles)}
    \cup {SourceOf(es) : es \in {x \in SUBSET SourceFiles : Cardinality(x) <= MaxDirs}}

\* the values Math.random().toString(36).substring(2, 15) takes
Randoms == {<<"4","f","z","y","o","8","2","m">>, <<"k","1">>}
Ticks == 0..MaxTick

\* a directory an earlier import left in the target
Imported0 == NewFolderName(generateULID(0, <<"k","1">>), <<"h","e","l","l","o">>)
TargetTrees == {NoTree, MkTree(TRUE, [n \in {Imported0} |-> MkDir(TRUE, LegacyB, {})])}


(***************************************************************************)
(* State.                                                                  *)
(***************************************************************************)
VARIABLES
  workflow,       \* "migrate" or "import": which script is run
  dryRun,         \* DRY_RUN of the current run
  backupEnabled,  \* backupOptions.enabled (the migration always backs up)
  content,        \* CONTENT_DIR of the migration, TARGET_DIR of the import
  backup,         \* BACKUP_DIR
  source,         \* SOURCE_DIR of the import
  pc,             \* "ready", "loop", "done" (summary printed), "exited" (aborted)
  folders,        \* the listing the loop iterates over
  results,        \* migrationResults / importResults
  slugMap,        \* slugMap of migratePosts
  exitCode,       \* the exit status of the run, -1 while it runs
  clock,          \* the tick of the last Date.now()
  runNo,          \* how many runs were started
  failures,       \* how many filesystem calls have thrown
  start,          \* history: content and backup when the current run started
  outcomes,       \* history: what each loop iteration of the current run did
  backupStep,     \* history: createBackup of the current run: "pending", "skipped"
                  \* (nothing to copy), "copied" or "failed"
  initial,        \* history: content before the first run
  mutated,        \* history: a loop iteration of the current run changed content
  prevLive,       \* history: the previous run was live and reached its summary
  prev            \* history: mode, listing, outcomes, counters and exit status of
                  \* the previous run

vars == <<workflow, dryRun, backupEnabled, content, backup, source, pc, folders,
          results, slugMap, exitCode, clock, runNo, failures, start, outcomes,
          backupStep, initial, mutated, prevLive, prev>>

config == <<workflow, backupEnabled, source, initial>>

\* what createBackup did
BackupStep(b) == IF b.threw THEN "failed" ELSE IF b.copied THEN "copied" ELSE "skipped"

Snapshot == [content |-> content, backup |-> backup]

\* what is remembered of a run when the script is started again
NoRun == [done |-> FALSE, dry |-> FALSE, folders |-> <<>>, outcomes |-> <<>>,
          results |-> NoResults, exitCode |-> -1]

Init ==
  /\ workflow \in {"migrate", "import"}
  /\ dryRun \in BOOLEAN
  /\ backupEnabled \in (IF workflow = "migrate" THEN {TRUE} ELSE BOOLEAN)
  /\ content \in (IF workflow = "migrate" THEN ContentTrees ELSE TargetTrees)
  /\ backup \in {NoTree, StaleBackup}
  /\ source \in (IF workflow = "migrate" THEN {NoSource} ELSE Sources)
  /\ pc = "ready"
  /\ folders = <<>>
  /\ results = NoResults
  /\ slugMap = {}
  /\ exitCode = -1
  /\ clock = 0
  /\ runNo = 1
  /\ failures = 0
  /\ start = Snapshot
  /\ outcomes = <<>>
  /\ backupStep = "pending"
  /\ initial = content
  /\ mutated = FALSE
  /\ prevLive = FALSE
  /\ prev = NoRun

\* fs.existsSync of a directory, with the test always succeeding
existsSyncAlways(tree) == TRUE

\* fs.existsSync(CONTENT_DIR) / fs.existsSync(SOURCE_DIR)
existsSync(tree) == tree.exists

\* process.exit(1) before the loop
Abort ==
  /\ pc' = "exited"
  /\ exitCode' = 1
  /\ UNCHANGED <<folders, results, slugMap, outcomes, mutated>>

\* migratePosts up to the for-loop: the check of CONTENT_DIR, createBackup()
\* and readdirSync
MigrateStart(copyFails, left) ==
  /\ pc = "ready" /\ workflow = "migrate"
  /\ start' = Snapshot
  /\ UNCHANGED <<config, dryRun, content, clock, runNo, prevLive, prev>>
  /\ IF ~existsSync(content)
     THEN /\ ~copyFails /\ left = NoTree
          /\ Abort
          /\ UNCHANGED <<backup, failures, backupStep>>
     ELSE LET b == createBackup(backup, content, dryRun, copyFails, left)
          IN /\ copyFails => (~dryRun /\ failures < MaxFailures)
             /\ copyFails \/ left = NoTree
             /\ backup' = b.backup
             /\ backupStep' = BackupStep(b)
             /\ failures' = IF copyFails THEN failures + 1 ELSE failures
             /\ IF b.threw
                THEN Abort
                ELSE /\ folders' \in Listings(DOMAIN content.dirs)
                     /\ pc' = "loop"
                     /\ UNCHANGED <<results, slugMap, exitCode, outcomes, mutated>>

\* one iteration of the for-loop of migratePosts
MigrateStep(f) ==
  /\ pc = "loop" /\ workflow = "migrate"
  /\ results.processed < Len(folders)
  /\ f = "none" \/ failures < MaxFailures
  /\ LET r == MigrateFolder(folders[results.processed + 1], content.dirs, slugMap, dryRun, f)
     IN /\ (f = "none") = ~r.failed
        /\ failures' = IF r.failed THEN failures + 1 ELSE failures
        /\ content' = [content EXCEPT !.dirs = r.dirs]
        /\ slugMap' = r.slugMap
        /\ results' = Count(results, r.outcome)
        /\ outcomes' = Append(outcomes, [folder |-> r.folder, slug |-> r.slug,
                                         outcome |-> r.outcome, why |-> r.why,
                                         id |-> r.folder])
        /\ mutated' = (mutated \/ r.dirs # content.dirs)
  /\ UNCHANGED <<config, dryRun, backup, pc, folders, exitCode, clock, runNo, start,
                 backupStep, prevLive, prev>>

\* the summary of migratePosts and the exit of the process
MigrateFinish ==
  /\ pc = "loop" /\ workflow = "migrate"
  /\ results.processed = Len(folders)
  /\ pc' = "done"
  /\ exitCode' = MigrateExitCode(results)
  /\ UNCHANGED <<config, dryRun, content, backup, folders, results, slugMap, clock,
                 runNo, failures, start, outcomes, backupStep, mutated, prevLive, prev>>

\* importContent up to the for-loop: the check of SOURCE_DIR, createBackup(),
\* the creation of TARGET_DIR and readdirSync
ImportStart(copyFails, left) ==
  /\ pc = "ready" /\ workflow = "import"
  /\ start' = Snapshot
  /\ UNCHANGED <<config, dryRun, clock, runNo, prevLive, prev>>
  /\ IF ~existsSync(source)
     THEN /\ ~copyFails /\ left = NoTree
          /\ Abort
          /\ UNCHANGED <<content, backup, failures, backupStep>>
     ELSE LET b == createBackupImport(backupEnabled, backup, content, dryRun, copyFails, left)
          IN /\ copyFails => (backupEnabled /\ ~dryRun /\ content.exists
                              /\ failures < MaxFailures)
             /\ copyFails \/ left = NoTree
             /\ backup' = b.backup
             /\ backupStep' = BackupStep(b)
             /\ failures' = IF copyFails THEN failures + 1 ELSE failures
             /\ IF b.threw
                THEN /\ Abort
                     /\ UNCHANGED content
                ELSE /\ folders' \in Listings({n \in DOMAIN source.files : EndsWithStr(n, MdExt)})
                     /\ content' = IF dryRun THEN content ELSE MkTree(TRUE, content.dirs)
                     /\ pc' = "loop"
                     /\ UNCHANGED <<results, slugMap, exitCode, outcomes, mutated>>

\* one iteration of the for-loop of importContent
ImportStep(f, tick, random) ==
  /\ pc = "loop" /\ workflow = "import"
  /\ results.processed < Len(folders)
  /\ tick >= clock
  /\ f = "none" \/ failures < MaxFailures
  /\ LET filePath == folders[results.processed + 1]
         r == ImportFile(filePath, source.files[filePath], content.dirs, dryRun, f, tick, random)
         generated == r.why # "read"
     IN /\ (f = "none") = ~r.failed
        /\ generated \/ (tick = clock /\ random = CHOOSE x \in Randoms : TRUE)
        /\ failures' = IF r.failed THEN failures + 1 ELSE failures
        /\ clock' = tick
        /\ content' = [content EXCEPT !.dirs = r.dirs]
        /\ results' = Count(results, r.outcome)
        /\ outcomes' = Append(outcomes, [folder |-> r.folder, slug |-> r.slug,
                                         outcome |-> r.outcome, why |-> r.why,
                                         id |-> IF r.why \in {"read", "convert"}
                                                THEN <<>>
                                                ELSE generateULID(tick, random)])
        /\ mutated' = (mutated \/ r.dirs # content.dirs)
  /\ UNCHANGED <<config, dryRun, backup, pc, folders, slugMap, exitCode, runNo, start,
                 backupStep, prevLive, prev>>

\* the summary of importContent and the exit of the process
ImportFinish ==
  /\ pc = "loop" /\ workflow = "import"
  /\ results.processed = Len(folders)
  /\ pc' = "done"
  /\ exitCode' = ImportExitCode(results)
  /\ UNCHANGED <<config, dryRun, content, backup, folders, results, slugMap, clock,
                 runNo, failures, start, outcomes, backupStep, mutated, prevLive, prev>>

\* the script is started again on the filesystem the last run left
NewRun(dry) ==
  /\ pc \in {"done", "exited"}
  /\ runNo < MaxRuns
  /\ runNo' = runNo + 1
  /\ dryRun' = dry
  /\ prevLive' = (pc = "done" /\ ~dryRun)
  /\ prev' = [done |-> pc = "done", dry |-> dryRun, folders |-> folders,
              outcomes |-> outcomes, results |-> results, exitCode |-> exitCode]
  /\ pc' = "ready"
  /\ folders' = <<>>
  /\ results' = NoResults
  /\ slugMap' = {}
  /\ exitCode' = -1
  /\ outcomes' = <<>>
  /\ backupStep' = "pending"
  /\ mutated' = FALSE
  /\ start' = Snapshot
  /\ UNCHANGED <<config, content, backup, clock, failures>>

MigrateFails == {"none", "read", "mkdir", "write", "rm"}
ImportFails == {"none", "read", "mkdir", "write"}

Next ==
  \/ \E copyFails \in BOOLEAN, left \in FailedCopies : MigrateStart(copyFails, left)
  \/ \E f \in MigrateFails : MigrateStep(f)
  \/ MigrateFinish
  \/ \E copyFails \in BOOLEAN, left \in FailedCopies : ImportStart(copyFails, left)
  \/ \E f \in ImportFails, tick \in Ticks, random \in Randoms : ImportStep(f, tick, random)
  \/ ImportFinish

\* one run of either script
Spec == Init /\ [][Next]_vars

\* the migration script, run up to MaxRuns times in a row on the same tree
MigrateInit == Init /\ workflow = "migrate"

MigrateNext ==
  \/ \E copyFails \in BOOLEAN, left \in FailedCopies : MigrateStart(copyFails, left)
  \/ \E f \in MigrateFails : MigrateStep(f)
  \/ MigrateFinish
  \/ \E dry \in BOOLEAN : NewRun(dry)

SpecMigrate == MigrateInit /\ [][MigrateNext]_vars

\* the migration script run with --dry-run and then live on the same tree,
\* no filesystem call failing
DryLiveInit == Init /\ workflow = "migrate" /\ dryRun

DryLiveNext ==
  \/ MigrateStart(FALSE, NoTree)
  \/ MigrateStep("none")
  \/ MigrateFinish
  \/ NewRun(FALSE)

SpecDryLive == DryLiveInit /\ [][DryLiveNext]_vars

\* the importer, run up to MaxRuns times in a row on the same source and on a
\* target that does not exist before the first run
ImportInit == Init /\ workflow = "import" /\ content = NoTree /\ backup = NoTree

ImportNext ==
  \/ \E copyFails \in BOOLEAN, left \in FailedCopies : ImportStart(copyFails, left)
  \/ \E f \in ImportFails, tick \in Ticks, random \in Randoms : ImportStep(f, tick, random)
  \/ ImportFinish
  \/ \E dry \in BOOLEAN : NewRun(dry)

SpecImport == ImportInit /\ [][ImportNext]_vars

TypeOK ==
  /\ pc \in {"ready", "loop", "done", "exited"}
  /\ results.processed <= Len(folders)
  /\ exitCode \in {-1, 0, 1}


(***************************************************************************)
(* The claims.                                                             *)
(***************************************************************************)
Thrown == {"read", "convert", "mkdir", "write", "rm"}
Live == ~dryRun
\* the slug part of a folder name ULID--slug
SlugOfName(n) == SubSeq(n, ULIDLen + 3, Len(n))

\* C1: a dry run of either workflow changes nothing on the filesystem: the
\* content/target tree and the backup location are as they were when the run
\* started (the source directory is never written by any action).
C1_DryRunNoMutation == dryRun => (content = start.content /\ backup = start.backup)

\* C2: during and after a dry run of either workflow the content/target tree
\* is what it was when the run started.
C2_DryRunKeepsContent == dryRun => content = start.content

C2_Witness ==
  /\ dryRun /\ pc = "done" /\ workflow = "migrate"
  /\ results.migrated > 0 /\ results.conflicts > 0

\* C3: a live migration run started on the tree a completed live run left
\* changes nothing in the content tree (no filesystem call failing in either
\* run), also when the first run ended with slug conflicts.
C3_SecondRunIdempotent == (prevLive /\ Live /\ failures = 0) => content = start.content

\* C4: within one migration run, once a document with a slug has been
\* migrated, every later document with that slug is counted as a conflict and
\* its directory is left as it was, and no directory is made for it; so no two
\* migrated documents share a slug.
C4_NoSharedSlugInRun ==
  workflow = "migrate" =>
    \A i, j \in 1..Len(outcomes) :
      (i < j /\ outcomes[i].outcome = "migrated" /\ outcomes[j].slug = outcomes[i].slug) =>
        /\ outcomes[j].outcome = "conflict"
        /\ outcomes[j].folder \in DOMAIN content.dirs
        /\ content.dirs[outcomes[j].folder] = start.content.dirs[outcomes[j].folder]
        /\ (NewFolderName(outcomes[j].folder, outcomes[j].slug) \in DOMAIN content.dirs
              => NewFolderName(outcomes[j].folder, outcomes[j].slug) \in DOMAIN start.content.dirs)

C4_Witness ==
  /\ workflow = "migrate" /\ Live
  /\ \E i, j \in 1..Len(outcomes) :
       /\ i < j
       /\ outcomes[i].outcome = "migrated"
       /\ outcomes[j].outcome = "conflict"
       /\ outcomes[j].slug = outcomes[i].slug

\* C5: starting from a tree of old-format directories only, after any
\* sequence of migration runs (no filesystem call failing) no two new-format
\* directories carry the same slug.
C5_SlugsUniqueInCollection ==
  ((\A n \in DOMAIN initial.dirs : isULID(n)) /\ failures = 0) =>
    \A n1, n2 \in DOMAIN content.dirs :
      (isNewFormat(n1) /\ isNewFormat(n2) /\ SlugOfName(n1) = SlugOfName(n2)) => n1 = n2

\* C6: no two documents imported in one import run have the same slug.
C6_ImportReservesSlugs ==
  workflow = "import" =>
    \A i, j \in 1..Len(outcomes) :
      (i < j /\ outcomes[i].outcome = "imported" /\ outcomes[j].outcome = "imported") =>
        outcomes[i].slug # outcomes[j].slug

C8_BackupHoldsSnapshot ==
  (Live /\ backupEnabled /\ mutated) =>
    (backup.exists /\ backup.dirs = start.content.dirs)

\* C9: a loop iteration that ends in an error adds exactly one to the error
\* counter, leaves the other outcome counters alone and goes on to the next
\* document; a run aborts only before the loop, and the summary is reached
\* with every listed document processed.
C9_ErrorDoesNotAbort ==
  /\ [][(pc = "loop" /\ Len(outcomes') = Len(outcomes) + 1
           /\ outcomes'[Len(outcomes')].outcome = "error") =>
          /\ results'.errors = results.errors + 1
          /\ results'.processed = results.processed + 1
          /\ results'.migrated = results.migrated
          /\ results'.imported = results.imported
          /\ results'.skipped = results.skipped
          /\ results'.conflicts = results.conflicts
          /\ pc' = "loop"]_vars
  /\ [](pc = "exited" => outcomes = <<>>)
  /\ [](pc = "done" => (results.processed = Len(folders) /\ Len(outcomes) = Len(folders)))

C9_Witness ==
  /\ pc = "done"
  /\ \E i \in 1..Len(outcomes) :
       i < Len(outcomes) /\ outcomes[i].outcome = "error" /\ outcomes[i].why \in Thrown

\* C10: the exit status of a run that reached its summary is zero exactly
\* when its error counter and its conflict counter are zero.
C10_ExitStatus ==
  pc = "done" => ((exitCode = 0) <=> (results.errors = 0 /\ results.conflicts = 0))

C10_Witness == pc = "done" /\ exitCode = 0 /\ results.skipped > 0 /\ Live

\* the alias list of a file as a YAML reader sees it: the items of an inline
\* bracket list, or of the one-item-per-line list that follows "aliases:"
RECURSIVE BlockItems(_)
BlockItems(lines) ==
  IF lines = <<>> THEN <<>>
  ELSE LET t == Trim(lines[1])
       IN IF Len(t) >= 2 /\ t[1] = "-" /\ t[2] = " "
          THEN <<Trim(SubSeq(t, 3, Len(t)))>> \o BlockItems(Tail(lines))
          ELSE <<>>
OnFileAliases(text) ==
  LET at == {i \in 1..Len(text.header) :
               StartsWithStr(Trim(text.header[i]), K_aliases \o <<":">>)}
  IN IF ~text.fm \/ at = {} THEN <<>>
     ELSE LET i == SetMin(at)
              t == Trim(text.header[i])
              value == Trim(SubSeq(t, Len(K_aliases) + 2, Len(t)))
          IN IF value = <<>>
             THEN BlockItems(SubSeq(text.header, i + 1, Len(text.header)))
             ELSE ParseValue(value).items
NonBlank(items) == SelectSeq(items, LAMBDA a : Trim(a) # <<>>)
Range(f) == {f[i] : i \in DOMAIN f}
BlogPath(slug) == <<"/","b","l","o","g","/">> \o slug \o <<"/">>
LiveMigrated(i) ==
  workflow = "migrate" /\ Live /\ outcomes[i].outcome = "migrated"

\* C11: after a live migration of a document with slug s, the alias list in
\* the file at the new location is the document's previous non-blank aliases
\* in their order, followed by /blog/s/.
C11_AliasesAfterMigration ==
  \A i \in 1..Len(outcomes) :
    LiveMigrated(i) =>
      LET new == NewFolderName(outcomes[i].folder, outcomes[i].slug)
      IN /\ new \in DOMAIN content.dirs
         /\ OnFileAliases(content.dirs[new].index) =
              Append(NonBlank(OnFileAliases(start.content.dirs[outcomes[i].folder].index)),
                     BlogPath(outcomes[i].slug))

\* C12: every non-blank alias a document's file held before a live migration
\* is held by the file at the new location, for the inline list and for the
\* one-item-per-line list.
C12_AliasesAppendOnly ==
  \A i \in 1..Len(outcomes) :
    LiveMigrated(i) =>
      \A a \in Range(NonBlank(OnFileAliases(start.content.dirs[outcomes[i].folder].index))) :
        a \in Range(OnFileAliases(
                 content.dirs[NewFolderName(outcomes[i].folder, outcomes[i].slug)].index))

\* C13: for every document imported in a live run, each local image its body
\* references and that exists beside it is present below assets/ in the new
\* directory, and the written body references it there.
C13_AssetsCopied ==
  (workflow = "import" /\ Live) =>
    \A i \in 1..Len(outcomes) :
      outcomes[i].outcome = "imported" =>
        LET dir == content.dirs[NewFolderName(outcomes[i].id, outcomes[i].slug)]
            body == parseFrontmatter(source.files[outcomes[i].folder]).content
        IN \A imagePath \in findPostAssets(body, DOMAIN source.files) :
             /\ AssetNewPath(imagePath) \in dir.others
             /\ AssetNewPath(imagePath) \in
                  UNION {ImagePaths(dir.index.body[k]) : k \in 1..Len(dir.index.body)}

\* index.md files without a slug: no slug line, a slug line without a value,
\* an empty quoted value, and a file without frontmatter
NoSlugTexts ==
  { PostD,
    MkText(TRUE, <<<<"s","l","u","g",":">>>>, <<<<"t","e","x","t">>>>),
    MkText(TRUE, <<<<"s","l","u","g",":"," ","\"","\"">>>>, <<<<"t","e","x","t">>>>),
    MkText(TRUE, <<<<"s","l","u","g",":"," ","'","'">>>>, <<<<"t","e","x","t">>>>),
    MkText(FALSE, <<>>, <<<<"t","e","x","t">>>>) }
\* the directories of content that are not those of the start of the run
Created == DOMAIN content.dirs \ DOMAIN start.content.dirs
\* outcome i of a migration run is that of a readable index.md without slug
WithoutSlug(i) ==
  /\ workflow = "migrate"
  /\ isULID(outcomes[i].folder)
  /\ start.content.dirs[outcomes[i].folder].hasIndex
  /\ outcomes[i].why # "read"
  /\ ~Truthy(parseFrontmatter(start.content.dirs[outcomes[i].folder].index).frontmatter, K_slug)

\* C14: in a migration run a document in an identifier-named directory whose
\* header has no slug (absent or empty) is counted as skipped; its directory
\* is as it was, no directory is made for it, and a run of skipped and
\* migrated documents only exits with status zero.
C14_NoSlugSkipped ==
  /\ \A i \in 1..Len(outcomes) :
       WithoutSlug(i) =>
         /\ outcomes[i].outcome = "skipped"
         /\ outcomes[i].folder \in DOMAIN content.dirs
         /\ content.dirs[outcomes[i].folder] = start.content.dirs[outcomes[i].folder]
         /\ \A n \in Created : ~StartsWithStr(n, outcomes[i].folder)
  /\ (workflow = "migrate" /\ pc = "done"
        /\ \A i \in 1..Len(outcomes) : outcomes[i].outcome \in {"skipped", "migrated"})
       => exitCode = 0
  /\ \A t \in NoSlugTexts, dry \in BOOLEAN :
       LET dirs == [n \in {ULID_D} |-> MkDir(TRUE, t, {})]
           r == MigrateFolder(ULID_D, dirs, slugMap, dry, "none")
       IN r.outcome = "skipped" /\ r.dirs = dirs /\ r.slugMap = slugMap

C14_Witness ==
  /\ pc = "done" /\ Live /\ exitCode = 0
  /\ \E i, j \in 1..Len(outcomes) :
       WithoutSlug(i) /\ outcomes[j].outcome = "migrated"

\* outcome i of a migration run is that of a document whose destination
\* directory identifier--slug existed when the run started
DestinationExisted(i) ==
  /\ workflow = "migrate"
  /\ outcomes[i].slug # <<>>
  /\ NewFolderName(outcomes[i].folder, outcomes[i].slug) \in DOMAIN start.content.dirs

\* C15: a document whose destination directory already exists is counted as
\* a conflict; the destination is as it was and so is the document's own
\* directory.
C15_NoOverwrite ==
  \A i \in 1..Len(outcomes) :
    DestinationExisted(i) =>
      LET new == NewFolderName(outcomes[i].folder, outcomes[i].slug)
      IN /\ outcomes[i].outcome = "conflict"
         /\ new \in DOMAIN content.dirs
         /\ content.dirs[new] = start.content.dirs[new]
         /\ outcomes[i].folder \in DOMAIN content.dirs
         /\ content.dirs[outcomes[i].folder] = start.content.dirs[outcomes[i].folder]

C15_Witness ==
  /\ Live /\ pc = "done"
  /\ \E i \in 1..Len(outcomes) : DestinationExisted(i) /\ outcomes[i].why = "target"

\* C16: a directory that a migration run made is, when a later run lists it,
\* skipped as already migrated, whatever 26 alphanumeric characters its
\* identifier is made of.
C16_OutputIsNewFormat ==
  (workflow = "migrate" /\ runNo > 1 /\ failures = 0) =>
    \A i \in 1..Len(outcomes) :
      outcomes[i].folder \notin DOMAIN initial.dirs =>
        (outcomes[i].outcome = "skipped" /\ outcomes[i].why = "new-format")

\* the current run is a live migration run that reached its summary, after a
\* dry run that reached its summary on the same tree and listing
LiveAfterDry ==
  /\ workflow = "migrate" /\ failures = 0
  /\ prev.done /\ prev.dry /\ Live /\ pc = "done"
  /\ folders = prev.folders

\* C17: a dry run and a live run of the migration on the same tree, no
\* filesystem call failing, give every document the same outcome in the same
\* order, the same counters and the same exit status.
C17_DryEqualsLive ==
  LiveAfterDry =>
    /\ Len(outcomes) = Len(prev.outcomes)
    /\ \A i \in 1..Len(outcomes) :
         /\ outcomes[i].folder = prev.outcomes[i].folder
         /\ outcomes[i].outcome = prev.outcomes[i].outcome
         /\ outcomes[i].slug = prev.outcomes[i].slug
    /\ results = prev.results
    /\ exitCode = prev.exitCode

C17_Witness ==
  /\ LiveAfterDry /\ content # start.content
  /\ results.migrated > 0 /\ results.conflicts > 0

\* C18: a live import run started after a completed live import of the same
\* source into the same target (no filesystem call failing) imports nothing
\* and leaves the target tree as it was.
C18_ReimportIdempotent ==
  (workflow = "import" /\ prevLive /\ Live /\ failures = 0) =>
    (content = start.content /\ results.imported = 0)

\* the identifiers generated so far in the current import run
GeneratedIds == SelectSeq([i \in 1..Len(outcomes) |-> outcomes[i].id], LAMBDA x : x # <<>>)

\* C19: no two identifiers generated within one import run are equal.
C19_IdsDistinctInRun ==
  workflow = "import" =>
    \A i, j \in 1..Len(GeneratedIds) : GeneratedIds[i] = GeneratedIds[j] => i = j

\* a header value with a boolean read as the string it is written as
Plain(val) == IF val.bool THEN Str(val.s) ELSE val
\* the entries of a header, whatever their order
Entries(fm) == {[k |-> fm[i].k, val |-> Plain(fm[i].val)] : i \in 1..Len(fm)}
\* decoding text gives back the header and the body it was encoded from
DecodesTo(text, frontmatter, body) ==
  /\ Entries(parseFrontmatter(text).frontmatter) = Entries(frontmatter)
  /\ parseFrontmatter(text).content = body

\* C20: the file a live run wrote for a migrated or imported document decodes
\* to the header (up to key order) and the body it was encoded from, for the
\* codec of the migration script and for the codec of the importer.
C20_CodecRoundTrip ==
  Live =>
    \A i \in 1..Len(outcomes) :
      /\ (workflow = "migrate" /\ outcomes[i].outcome = "migrated") =>
           LET old == parseFrontmatter(start.content.dirs[outcomes[i].folder].index)
           IN DecodesTo(content.dirs[NewFolderName(outcomes[i].folder, outcomes[i].slug)].index,
                        AddAlias(old.frontmatter, outcomes[i].slug), old.content)
      /\ (workflow = "import" /\ outcomes[i].outcome = "imported") =>
           LET old == parseFrontmatter(source.files[outcomes[i].folder])
           IN \A tick \in Ticks, random \in Randoms :
                generateULID(tick, random) = outcomes[i].id =>
                  DecodesTo(content.dirs[NewFolderName(outcomes[i].id, outcomes[i].slug)].index,
                            convertFrontmatter(old.frontmatter, outcomes[i].folder,
                                               tick, random).frontmatter,
                            old.content)

\* the file whose decoding outcome i of the current run stands for (NoText
\* when the iteration read no file)
DecodedText(i) ==
  IF outcomes[i].why = "read" THEN NoText
  ELSE IF workflow = "import" THEN source.files[outcomes[i].folder]
  ELSE IF isULID(outcomes[i].folder) /\ start.content.dirs[outcomes[i].folder].hasIndex
  THEN start.content.dirs[outcomes[i].folder].index
  ELSE NoText

\* C21: for every file a run decoded that has no frontmatter block, the
\* decoded header is empty and the decoded body is the entire text of the file.
C21_DecodeUnstructured ==
  \A i \in 1..Len(outcomes) :
    (DecodedText(i) # NoText /\ ~DecodedText(i).fm) =>
      parseFrontmatter(DecodedText(i)) =
        [frontmatter |-> <<>>, content |-> DecodedText(i).body]

\* the value of the first key of fields with a non-empty value in the header
\* old, or default when there is none
FirstMatch(old, fields, default) ==
  IF FirstTruthy(old, fields) = 0 THEN default
  ELSE GetKey(old, fields[FirstTruthy(old, fields)])

\* C22: for every document an import run converted, the title is the value of
\* the first key of the title list with a non-empty value, whatever that value
\* is, and the file name without .md when there is none; the description is
\* chosen the same way, with the empty string when there is none.
C22_FirstMatchWins ==
  workflow = "import" =>
    \A i \in 1..Len(outcomes) :
      outcomes[i].id # <<>> =>
        LET old == parseFrontmatter(source.files[outcomes[i].folder]).frontmatter
        IN \A tick \in Ticks, random \in Randoms :
             generateULID(tick, random) = outcomes[i].id =>
               LET new == convertFrontmatter(old, outcomes[i].folder, tick, random).frontmatter
               IN /\ GetKey(new, K_title) =
                       FirstMatch(old, TitleFields,
                                  Str(BasenameExt(outcomes[i].folder, MdExt)))
                  /\ GetKey(new, K_description) =
                       FirstMatch(old, DescriptionFields, Str(<<>>))

\* the directory a run must find does not exist: CONTENT_DIR of the
\* migration, SOURCE_DIR of the import
PreconditionFails ==
  IF workflow = "migrate" THEN ~start.content.exists ELSE ~source.exists

\* C23: a run whose content directory (migration) or source directory
\* (import) does not exist exits with status 1 with the content tree and the
\* backup location as they were, no backup attempted and no document
\* processed.
C23_PreconditionAborts ==
  (PreconditionFails /\ pc # "ready") =>
    /\ pc = "exited" /\ exitCode = 1
    /\ content = start.content /\ backup = start.backup
    /\ backupStep = "pending"
    /\ outcomes = <<>> /\ results = NoResults

C23_Witness ==
  PreconditionFails /\ pc = "exited" /\ Live /\ backup = StaleBackup

\* C25: after every loop iteration and at the end of every run, processed is
\* the number of documents handled and equals migrated + skipped + errors +
\* conflicts in a migration run and imported + skipped + errors in an import
\* run.
C25_CountedOnce ==
  /\ results.processed = Len(outcomes)
  /\ workflow = "migrate" =>
       /\ results.processed =
            results.migrated + results.skipped + results.errors + results.conflicts
       /\ results.imported = 0
  /\ workflow = "import" =>
       /\ results.processed = results.imported + results.skipped + results.errors
       /\ results.migrated = 0 /\ results.conflicts = 0

C25_Witness ==
  /\ pc = "done" /\ Len(outcomes) >= 2 /\ results.skipped > 0
  /\ \E i \in 1..Len(outcomes) : outcomes[i].why \in {"mkdir", "write", "rm"}

\* C26: in every state of a live migration run, each index.md the content
\* tree held at the start of the run exists in its old directory or in a
\* directory named after it, identifier--slug.
C26_NoDocumentLost ==
  (workflow = "migrate" /\ Live) =>
    \A n \in DOMAIN start.content.dirs :
      start.content.dirs[n].hasIndex =>
        \/ (n \in DOMAIN content.dirs /\ content.dirs[n].hasIndex)
        \/ \E new \in DOMAIN content.dirs :
             /\ StartsWithStr(new, n \o <<"-","-">>)
             /\ Len(new) > Len(n) + 2
             /\ content.dirs[new].hasIndex

C26_Witness ==
  /\ workflow = "migrate" /\ Live /\ pc = "done" /\ results.migrated > 0
  /\ \E i \in 1..Len(outcomes) : outcomes[i].why \in {"write", "rm"}

\* s is lower-case letters, digits and single hyphens, with no hyphen at
\* either end
SlugShaped(s) ==
  /\ \A k \in 1..Len(s) : s[k] \in Lower \cup Digits \cup {"-"}
  /\ \A k \in 1..(Len(s) - 1) : ~(s[k] = "-" /\ s[k + 1] = "-")
  /\ s # <<>> => (s[1] # "-" /\ s[Len(s)] # "-")

\* C24: the slug the importer derives from the title of every converted
\* document is lower-case letters, digits and hyphens only, has no two
\* adjacent hyphens and neither starts nor ends with a hyphen.
C24_SlugShape ==
  workflow = "import" =>
    \A i \in 1..Len(outcomes) :
      outcomes[i].id # <<>> =>
        /\ outcomes[i].slug =
             createSlug(GetKey(convertFrontmatter(
                                 parseFrontmatter(source.files[outcomes[i].folder]).frontmatter,
                                 Basename(outcomes[i].folder), 0, <<>>).frontmatter,
                               K_title).s)
        /\ SlugShaped(outcomes[i].slug)

\* C27: a loop iteration of a live migration in which mkdirSync succeeds and
\* writeMarkdownFile throws leaves the content tree as it was before the
\* iteration.
C27_WriteFailureLeavesNoTrace ==
  [][(/\ workflow = "migrate"
      /\ Len(outcomes') = Len(outcomes) + 1
      /\ outcomes'[Len(outcomes')].why = "write") => content' = content]_vars

\* C28: after a live migration of a document, the files its old directory
\* held besides index.md are held by the new identifier--slug directory.
C28_OtherFilesKept ==
  \A i \in 1..Len(outcomes) :
    LiveMigrated(i) =>
      LET new == NewFolderName(outcomes[i].folder, outcomes[i].slug)
      IN /\ new \in DOMAIN content.dirs
         /\ start.content.dirs[outcomes[i].folder].others \subseteq content.dirs[new].others

\* the value of key in a file as a YAML reader sees it: a scalar without its
\* quotes, the items of an inline bracket list, or the items of the
\* one-item-per-line list that follows "key:"
OnFileValue(text, key) ==
  LET at == {i \in 1..Len(text.header) :
               StartsWithStr(Trim(text.header[i]), key \o <<":">>)}
      i == SetMin(at)
      t == Trim(text.header[i])
      value == Trim(SubSeq(t, Len(key) + 2, Len(t)))
      items == BlockItems(SubSeq(text.header, i + 1, Len(text.header)))
  IN IF value # <<>> THEN Plain(ParseValue(value))
     ELSE IF items # <<>> THEN Arr(items)
     ELSE Str(<<>>)
\* the keys of the header of a file, aliases apart
OtherKeys(text) ==
  {e.k : e \in Range(parseFrontmatter(text).frontmatter)} \ {K_aliases}

\* C29: after a live migration of a document the file at the new location
\* has the keys of the old file, each key other than aliases with the value
\* it had (scalar, inline list or one-item-per-line list), and the body
\* decodes to the same text.
C29_OnlyAliasesChange ==
  \A i \in 1..Len(outcomes) :
    LiveMigrated(i) =>
      LET old == start.content.dirs[outcomes[i].folder].index
          new == content.dirs[NewFolderName(outcomes[i].folder, outcomes[i].slug)].index
      IN /\ OtherKeys(new) = OtherKeys(old)
         /\ \A k \in OtherKeys(old) : OnFileValue(new, k) = OnFileValue(old, k)
         /\ parseFrontmatter(new).content = parseFrontmatter(old).content

\* line with the path between the parentheses of every image reference to
\* originalPath replaced by newPath, and nothing else changed
RECURSIVE PathRewritten(_, _)
PathRewritten(line, asset) ==
  LET tail == <<"]", "(">> \o asset.originalPath \o <<")">>
      p == IndexOfStr(line, <<"!", "[">>, 1)
      q == IF p = 0 THEN 0 ELSE IndexOfStr(line, tail, p + 2)
      end == q + Len(tail) - 1
  IN IF q = 0 THEN line
     ELSE SubSeq(line, 1, q + 1) \o asset.newPath \o <<")">>
          \o PathRewritten(SubSeq(line, end + 1, Len(line)), asset)

\* C30: for the body of every converted document and every local image it
\* references, updateAssetPaths changes the path between the parentheses of
\* the references to that image and nothing else: the alt text and the text
\* around the references are as they were.
C30_OnlyPathRewritten ==
  workflow = "import" =>
    \A i \in 1..Len(outcomes) :
      outcomes[i].id # <<>> =>
        LET body == parseFrontmatter(source.files[outcomes[i].folder]).content
        IN \A imagePath \in findPostAssets(body, DOMAIN source.files) :
             LET asset == [originalPath |-> imagePath, newPath |-> AssetNewPath(imagePath)]
             IN updateAssetPaths(body, <<asset>>) =
                  [k \in 1..Len(body) |-> PathRewritten(body[k], asset)]

====
